---- MODULE Spec2Model ----
(***************************************************************************)
(* State-machine model of the matchmaking / room server of src/server.js   *)
(* (the second program of the file, lines 496-1602: CONFIG, rankQueues,    *)
(* CPUPlayer, Room and the WebSocket message handlers).                    *)
(*                                                                         *)
(* Every handler and timer callback runs to completion (Node.js event      *)
(* loop), so each one is a single action.  Timer callbacks (matchmaking    *)
(* timeout, match-start timer, bot tick) fire at arbitrary points between  *)
(* other events.                                                           *)
(***************************************************************************)
EXTENDS Integers, Sequences, FiniteSets, Bags, TLC

\* ---------------------------------------------------------------- bounds
NumClients == 4          \* WebSocket connections that may ever be opened
MaxEnqueue == 4          \* quickMatch messages handled in one behaviour
MaxCreateRoom == 1       \* createRoom messages handled in one behaviour
MaxStarts == 2           \* startGame() bodies executed per room

NumGameClients == 2      \* connections in the runs of the whole server
MaxGameEnqueue == 2      \* quickMatch messages in the runs of the whole server

Clients == 1..NumClients
NumLiveClients == 3      \* connections in the runs with fair timers
MaxLiveEnqueue == 3      \* quickMatch messages in the runs with fair timers
NumRoomClients == 3      \* connections in the runs of createRoom rooms
MaxFillHumans == 52      \* human records of the session in the runs of the backfill
NumFillClients == 2      \* connections that send messages in the runs of the backfill
MaxMembers == 3          \* humans and bots of the session in the runs of the rankings
MaxCalls == 8            \* start and receiveAttack calls and ticks of the bot
MaxGameCalls == 20       \* the same in the runs of a bot's whole life
MaxBotStarts == 2        \* start calls on the bot in these runs
MaxLines == 2            \* garbage lines of one attack
TopRows == 2             \* rows at the top of a field given to clearLines that are drawn
BottomRows == 4          \* rows at its bottom that are drawn (the rows between are empty)
GameClients == 1..NumGameClients
RoomClients == 1..NumRoomClients
LiveClients == 1..NumLiveClients
FillClients == 1..NumFillClients
GameRanks == {"C"}
Ranks == {"B", "C"}      \* two of the keys of rankQueues (line 530)
Passwords == {"", "pw"}  \* "" is the null password (data.password || null)
NoRoom == 0              \* clientInfo.roomId === null
MaxRooms == (MaxEnqueue \div 2) + MaxCreateRoom

\* ---------------------------------------------------------------- CONFIG
MIN_PLAYERS == 2
IDEAL_PLAYERS == 4
MAX_PLAYERS == 99
TARGET_SMALL == 80
TARGET_MEDIUM == 60
TARGET_DEFAULT == 50
DEFAULT_MAX_PLAYERS == 99   \* data.maxPlayers || 99 in handleCreateRoom

VARIABLES
  clients,     \* keys of the clients map: the open connections
  closed,      \* connections whose 'close' handler has run
  roomId,      \* roomId[c]: clientInfo.roomId of connection c (NoRoom = null)
  rankQueues,  \* rankQueues[rank]: sequence of waiting entries
  mmTimers,    \* pending setTimeout callbacks armed by handleQuickMatch
  enqueued,    \* enqueued[c]: number of quickMatch messages of connection c handled
  rooms,       \* keys of the rooms map (the registry)
  room,        \* room[i]: the i-th Room object ever constructed
  last,        \* the event handled last and what it sent
  bot,         \* one CPUPlayer object in full: field, bag, pieces, score
  allPlayers,  \* the member list calculateRankings collects, before its sort
  ret          \* the method of bot or of the room called last and what it returned

vars == <<clients, closed, roomId, rankQueues, mmTimers, enqueued, rooms, room, last,
          bot, allPlayers, ret>>

\* ---------------------------------------------------------------- helpers
Min(a, b) == IF a < b THEN a ELSE b

Range(s) == {s[i] : i \in 1..Len(s)}

\* queue.findIndex(p => p.ws === ws): 0 stands for -1
FindIndex(queue, ws) ==
  IF \E i \in 1..Len(queue) : queue[i].ws = ws
    THEN CHOOSE i \in 1..Len(queue) :
           /\ queue[i].ws = ws
           /\ \A j \in 1..(i - 1) : queue[j].ws # ws
    ELSE 0

\* queue.splice(index, 1)
RemoveAt(queue, i) ==
  [j \in 1..(Len(queue) - 1) |-> IF j < i THEN queue[j] ELSE queue[j + 1]]

\* a bag with n copies of the single element e
Copies(e, n) == IF n > 0 THEN [x \in {e} |-> n] ELSE EmptyBag

\* ---------------------------------------------------------------- CPUPlayer
\* A bot as the room sees it: its isAlive flag and whether its setInterval
\* handle (updateInterval) is set.  The bots of a room are a bag of such
\* records: bots are told apart only by randomly generated ids.
NewCPU == [isAlive |-> TRUE, updateInterval |-> FALSE]

CPUStart(cpu) == [cpu EXCEPT !.updateInterval = TRUE]

CPUStop(cpu) == [cpu EXCEPT !.updateInterval = FALSE]

\* ---------------------------------------------------------------- CPUPlayer in full
\* One bot with everything its methods read and write.  Coordinates are those
\* of the program: field[y][x] with y in 0..19 (0 is the top row) and x in
\* 0..9; the sequences of the model are indexed from 1, so the cell is
\* c.field[y + 1][x + 1].  A cell is "" (empty) or a colour string; a null
\* piece is the empty sequence and a piece p is <<p>>.
FIELD_ROWS == 20
FIELD_COLS == 10

pieceTypes == <<"I", "J", "L", "O", "S", "T", "Z">>

colors(type) ==
  CASE type = "I" -> "#0ff" [] type = "J" -> "#00f" [] type = "L" -> "#f80"
    [] type = "O" -> "#ff0" [] type = "S" -> "#0f0" [] type = "T" -> "#a0f"
    [] type = "Z" -> "#f00"

shapes(type) ==
  CASE type = "I" -> << <<1, 1, 1, 1>> >>
    [] type = "J" -> << <<1, 0, 0>>, <<1, 1, 1>> >>
    [] type = "L" -> << <<0, 0, 1>>, <<1, 1, 1>> >>
    [] type = "O" -> << <<1, 1>>, <<1, 1>> >>
    [] type = "S" -> << <<0, 1, 1>>, <<1, 1, 0>> >>
    [] type = "T" -> << <<0, 1, 0>>, <<1, 1, 1>> >>
    [] type = "Z" -> << <<1, 1, 0>>, <<0, 1, 1>> >>

\* a new array with the elements of seq (the same sequence, built once)
NewArray(seq) == SubSeq(seq, 1, Len(seq))

\* Array(10).fill("")
EmptyRow == NewArray([x \in 1..FIELD_COLS |-> ""])

\* the constructor; updateInterval is TRUE while the interval of start() is
\* set.  Three fields are bookkeeping of the model: drawn is the bag of the
\* piece types getNextPiece has returned in the current block of seven calls,
\* calls counts the start, stop and receiveAttack calls and the ticks of the
\* bot, starts its start calls
NewCPUPlayer ==
  [ field |-> NewArray([y \in 1..FIELD_ROWS |-> EmptyRow]),
    bag |-> << >>,
    currentPiece |-> << >>,
    nextPiece |-> << >>,
    score |-> 0,
    linesCleared |-> 0,
    isAlive |-> TRUE,
    updateInterval |-> FALSE,
    drawn |-> EmptyBag,
    calls |-> 0,
    starts |-> 0 ]

\* the outcomes of refillBag: a sort with a random comparator returns the
\* seven piece types in some order
Shuffles ==
  {[i \in 1..Len(pieceTypes) |-> f[pieceTypes[i]]] : f \in Permutations(Range(pieceTypes))}

\* the model's bookkeeping of getNextPiece: the types returned in this block
Drawn(drawn, type) ==
  IF BagCardinality(drawn) = Len(pieceTypes)
    THEN SetToBag({type})
    ELSE drawn (+) SetToBag({type})

\* mutant: the last type of the bag is read but not removed from it
GetNextPiecePeek(c, shuffled) ==
  LET bag == IF Len(c.bag) = 0 THEN shuffled ELSE c.bag
      type == bag[Len(bag)]
  IN [cpu |-> [c EXCEPT !.bag = bag,
                        !.drawn = Drawn(@, type)],
      piece |-> [type |-> type, shape |-> shapes(type), color |-> colors(type),
                 x |-> 3, y |-> 0]]

\* getNextPiece(), shuffled being what refillBag produces if it is called:
\* the bot afterwards and the piece returned
GetNextPiece(c, shuffled) ==
  LET bag == IF Len(c.bag) = 0 THEN shuffled ELSE c.bag
      type == bag[Len(bag)]
  IN [cpu |-> [c EXCEPT !.bag = SubSeq(bag, 1, Len(bag) - 1),
                        !.drawn = Drawn(@, type)],
      piece |-> [type |-> type, shape |-> shapes(type), color |-> colors(type),
                 x |-> 3, y |-> 0]]

\* the cells a shape placed at (x, y) covers: the <<newY, newX>> pairs of the
\* loops over shape[row][col]
Cells(x, y, shape) ==
  {<<y + row - 1, x + col - 1>> :
     <<row, col>> \in {rc \in (1..Len(shape)) \X (1..Len(shape[1])) : shape[rc[1]][rc[2]] # 0}}

\* checkCollision(x, y, shape)
CheckCollision(field, x, y, shape) ==
  \E cell \in Cells(x, y, shape) :
    \/ cell[2] < 0
    \/ cell[2] >= FIELD_COLS
    \/ cell[1] >= FIELD_ROWS
    \/ (cell[1] >= 0 /\ field[cell[1] + 1][cell[2] + 1] # "")

\* rotateShape(shape): rotated[c][rows - 1 - r] = shape[r][c]
RotateShape(shape) ==
  NewArray([i \in 1..Len(shape[1]) |->
              NewArray([j \in 1..Len(shape) |-> shape[Len(shape) - j + 1][i]])])

RECURSIVE Rotated(_, _)
\* for (r = 0; r < rotation; r++) testShape = rotateShape(testShape)
Rotated(shape, rotation) ==
  IF rotation = 0 THEN shape ELSE Rotated(RotateShape(shape), rotation - 1)

RECURSIVE HardDrop(_, _, _, _)
\* while (!checkCollision(x, y + 1, testShape)) y++
HardDrop(field, x, y, shape) ==
  IF CheckCollision(field, x, y + 1, shape) THEN y ELSE HardDrop(field, x, y + 1, shape)

\* F applied to the value of v, the value being computed once
Once(v, F(_)) == CHOOSE r \in {F(x) : x \in {v}} : TRUE

\* the testField of evaluatePosition: a copy of the field with 'X' written in
\* the cells of the shape that are inside the grid
TestField(field, x, y, shape) ==
  Once(Cells(x, y, shape), LAMBDA placed :
    NewArray([row \in 1..FIELD_ROWS |->
                NewArray([col \in 1..FIELD_COLS |->
                            IF <<row - 1, col - 1>> \in placed
                              THEN "X" ELSE field[row][col]])]))

RECURSIVE HolesIn(_, _, _, _)
\* the loop of evaluatePosition over the rows of column x from row y on:
\* the empty cells below a filled cell
HolesIn(testField, x, y, blockFound) ==
  IF y = FIELD_ROWS
    THEN 0
    ELSE IF testField[y + 1][x + 1] # ""
      THEN HolesIn(testField, x, y + 1, TRUE)
      ELSE (IF blockFound THEN 1 ELSE 0) + HolesIn(testField, x, y + 1, blockFound)

RECURSIVE Holes(_, _)
\* the loop of evaluatePosition over the columns from column x on
Holes(testField, x) ==
  IF x = FIELD_COLS THEN 0 ELSE HolesIn(testField, x, 0, FALSE) + Holes(testField, x + 1)

\* evaluatePosition(x, y, shape)
EvaluatePosition(field, x, y, shape) ==
  Once(TestField(field, x, y, shape), LAMBDA testField :
    LET completeLines ==
          Cardinality({row \in 1..FIELD_ROWS :
                         \A col \in 1..FIELD_COLS : testField[row][col] # ""})
    IN (0 - y * 10) - Holes(testField, 0) * 50 + completeLines * 100)

\* the number of placements findBestMove tries: 4 rotations, x from -2 to 9
PLACEMENTS == 48

\* the placement findBestMove tries in iteration k of its two loops
\* (rotation 0..3, then x from -2 to 9): rotation (k - 1) \div 12 and
\* x = ((k - 1) % 12) - 2, dropped from y = 0
Candidate(field, piece, k) ==
  Once(Rotated(piece.shape, (k - 1) \div 12), LAMBDA shape :
    [x |-> ((k - 1) % 12) - 2,
     y |-> HardDrop(field, ((k - 1) % 12) - 2, 0, shape),
     shape |-> shape])

\* mutant: iteration k of findBestMove without the check of the resting
\* position
TriedNoCheck(field, piece, k) ==
  Once(Candidate(field, piece, k), LAMBDA move :
    <<[x |-> move.x, y |-> move.y, shape |-> move.shape,
       score |-> EvaluatePosition(field, move.x, move.y, move.shape)]>>)

\* iteration k of the loops of findBestMove: the empty sequence if the
\* dropped piece collides at its resting position, else the placement and
\* its score
Tried(field, piece, k) ==
  Once(Candidate(field, piece, k), LAMBDA move :
    IF CheckCollision(field, move.x, move.y, move.shape)
      THEN << >>
      ELSE <<[x |-> move.x, y |-> move.y, shape |-> move.shape,
              score |-> EvaluatePosition(field, move.x, move.y, move.shape)]>>)

\* bestMove after the loops, tried[k] being what iteration k found: bestMove
\* is replaced only by a strictly greater score (bestScore starts at
\* -Infinity), so it is the first of the placements of the greatest score
Best(tried) ==
  LET scored == {k \in 1..PLACEMENTS : tried[k] # << >>}
  IN IF scored = {}
       THEN << >>
       ELSE tried[CHOOSE k \in scored :
                    \A j \in scored :
                      \/ tried[j][1].score < tried[k][1].score
                      \/ (tried[j][1].score = tried[k][1].score /\ k <= j)]

\* findBestMove(): null (the empty sequence) or <<[x, y, shape]>>
FindBestMove(c) ==
  IF c.currentPiece = << >>
    THEN << >>
    ELSE Once(Once(NewArray([k \in 1..PLACEMENTS |->
                               Tried(c.field, c.currentPiece[1], k)]),
                   LAMBDA tried : Best(tried)),
              LAMBDA best :
                IF best = << >>
                  THEN << >>
                  ELSE <<[x |-> best[1].x, y |-> best[1].y, shape |-> best[1].shape]>>)

RECURSIVE ReceiveAttack(_, _, _)
\* receiveAttack(lines) on the field; holePos[i] is the value of
\* Math.floor(Math.random() * 10) in iteration i.  Array.pop removes the
\* last row of the field (index 19, the bottom row)
ReceiveAttack(field, lines, holePos) ==
  IF lines <= 0
    THEN field
    ELSE LET popped == SubSeq(field, 1, Len(field) - 1)
             garbageLine == NewArray([x \in 1..FIELD_COLS |->
                                        IF x - 1 = Head(holePos) THEN "" ELSE "#808080"])
         IN ReceiveAttack(Append(popped, garbageLine), lines - 1, Tail(holePos))

\* mergePiece() for a current piece: its cells inside the grid take its colour
MergePiece(field, piece) ==
  LET placed == Cells(piece.x, piece.y, piece.shape)
  IN NewArray([y \in 1..FIELD_ROWS |->
                 NewArray([x \in 1..FIELD_COLS |->
                             IF <<y - 1, x - 1>> \in placed
                               THEN piece.color ELSE field[y][x]])])

RECURSIVE ClearFrom(_, _, _)
RECURSIVE ClearFromNoRecheck(_, _, _)
\* mutant: the loop of clearLines without y++, a removal moving on to the
\* row above
ClearFromNoRecheck(field, y, linesCleared) ==
  IF y < 0
    THEN [field |-> field, linesCleared |-> linesCleared]
    ELSE IF \A x \in 1..FIELD_COLS : field[y + 1][x] # ""
      THEN ClearFromNoRecheck(<<EmptyRow>> \o SubSeq(field, 1, y) \o SubSeq(field, y + 2, Len(field)),
                              y - 1, linesCleared + 1)
      ELSE ClearFromNoRecheck(field, y - 1, linesCleared)

\* the loop of clearLines from row y upwards: a full row is spliced out, an
\* empty row is unshifted and the same index is looked at again
ClearFrom(field, y, linesCleared) ==
  IF y < 0
    THEN [field |-> field, linesCleared |-> linesCleared]
    ELSE IF \A x \in 1..FIELD_COLS : field[y + 1][x] # ""
      THEN ClearFrom(<<EmptyRow>> \o SubSeq(field, 1, y) \o SubSeq(field, y + 2, Len(field)),
                     y, linesCleared + 1)
      ELSE ClearFrom(field, y - 1, linesCleared)

\* the number NaN, which no sum of points equals: what the score becomes when
\* undefined is added to it
NaN == -1

\* a + b on the numbers of the program
Plus(a, b) == IF a = NaN \/ b = NaN THEN NaN ELSE a + b

\* mutant: fifty points a line
PointsFlat(linesCleared) == 50 * linesCleared

\* [0, 100, 300, 500, 800][linesCleared]: undefined past the table, and
\* adding undefined gives NaN
Points(linesCleared) ==
  IF linesCleared <= 4 THEN <<0, 100, 300, 500, 800>>[linesCleared + 1] ELSE NaN

\* clearLines(): the bot afterwards and the number of lines returned
ClearLines(c) ==
  Once(c, LAMBDA before :
    Once(ClearFrom(before.field, FIELD_ROWS - 1, 0), LAMBDA res :
      [cpu |-> IF res.linesCleared > 0
                 THEN [before EXCEPT !.field = res.field,
                                     !.linesCleared = @ + res.linesCleared,
                                     !.score = Plus(@, Points(res.linesCleared))]
                 ELSE before,
       lines |-> res.linesCleared]))

\* the two getNextPiece calls of start(room) (its setInterval is CPUStart)
StartPieces(c, shuffled) ==
  LET g1 == GetNextPiece(c, shuffled)
      g2 == GetNextPiece(g1.cpu, shuffled)
  IN [g2.cpu EXCEPT !.currentPiece = <<g1.piece>>, !.nextPiece = <<g2.piece>>]

\* mutant: playMove without the check of the new current piece at its end
PlayMoveAlive(c, shuffled) ==
  LET c1 == IF c.currentPiece = << >> THEN StartPieces(c, shuffled) ELSE c
      spawned == c1.currentPiece[1]
      \* the rest of playMove, bestMove being what findBestMove returned
      Place(bestMove) ==
        LET piece == IF bestMove # << >>
                       THEN [spawned EXCEPT !.x = bestMove[1].x,
                                            !.y = bestMove[1].y,
                                            !.shape = bestMove[1].shape]
                       ELSE spawned
        IN Once(ClearLines([c1 EXCEPT !.field = MergePiece(c1.field, piece)]).cpu,
                LAMBDA c2 :
                  Once(GetNextPiece(c2, shuffled), LAMBDA g :
                    [cpu |-> [g.cpu EXCEPT !.currentPiece = c2.nextPiece,
                                           !.nextPiece = <<g.piece>>],
                     alive |-> TRUE,
                     bestMove |-> bestMove]))
  IN IF c.currentPiece = << >>
          /\ CheckCollision(c1.field, spawned.x, spawned.y, spawned.shape)
       THEN [cpu |-> c1, alive |-> FALSE, bestMove |-> << >>]
       ELSE Once(FindBestMove(c1), Place)

\* playMove(): the bot afterwards, the value returned (false: game over) and
\* what findBestMove returned (the empty sequence if it was not called).
\* At most one of the getNextPiece calls of one playMove refills the bag.
PlayMove(c, shuffled) ==
  LET c1 == IF c.currentPiece = << >> THEN StartPieces(c, shuffled) ELSE c
      spawned == c1.currentPiece[1]
      \* the rest of playMove, bestMove being what findBestMove returned
      Place(bestMove) ==
        LET piece == IF bestMove # << >>
                       THEN [spawned EXCEPT !.x = bestMove[1].x,
                                            !.y = bestMove[1].y,
                                            !.shape = bestMove[1].shape]
                       ELSE spawned
        IN Once(ClearLines([c1 EXCEPT !.field = MergePiece(c1.field, piece)]).cpu,
                LAMBDA c2 :
                  Once(GetNextPiece(c2, shuffled), LAMBDA g :
                    [cpu |-> [g.cpu EXCEPT !.currentPiece = c2.nextPiece,
                                           !.nextPiece = <<g.piece>>],
                     alive |-> ~CheckCollision(g.cpu.field, c2.nextPiece[1].x,
                                               c2.nextPiece[1].y, c2.nextPiece[1].shape),
                     bestMove |-> bestMove]))
  IN IF c.currentPiece = << >>
          /\ CheckCollision(c1.field, spawned.x, spawned.y, spawned.shape)
       THEN [cpu |-> c1, alive |-> FALSE, bestMove |-> << >>]
       ELSE Once(FindBestMove(c1), Place)

\* ---------------------------------------------------------------- Room
\* the player record addPlayer inserts, as far as the room logic reads it
\* (name, rank, ws, score, linesCleared and field decide no transition)
NewPlayer == [isAlive |-> TRUE]

NoPlayers == [p \in {} |-> NewPlayer]

\* The Room constructor.  matchTimer is "null" (no handle), "armed" (handle
\* set, callback pending) or "fired" (handle set, callback has run).
\* startTime counts the assignments of Date.now() to this.startTime (0 = null).
\* Two fields are bookkeeping of the model, not of the program:
\*   gameEndsSent  gameEnd broadcasts delivered since the room last entered
\*                 PLAYING (or since it was built)
\*   entries       the queue entries createMatch built the room from
NewRoom(password, maxPlayers, isQuickMatch, rank) ==
  [ password |-> password,
    maxPlayers |-> maxPlayers,
    isQuickMatch |-> isQuickMatch,
    rank |-> rank,
    players |-> NoPlayers,
    cpuPlayers |-> EmptyBag,
    gameStarted |-> FALSE,
    gameEnded |-> FALSE,
    matchTimer |-> "null",
    startTime |-> 0,
    gameEndsSent |-> 0,
    entries |-> {} ]

Humans(rm) == DOMAIN rm.players

\* the guard of addPlayer: players.size >= maxPlayers returns false
AddPlayerOk(rm) == Cardinality(Humans(rm)) < rm.maxPlayers

AddPlayer(rm, playerId) ==
  IF ~AddPlayerOk(rm)
    THEN rm
    ELSE [rm EXCEPT !.players =
            [p \in Humans(rm) \cup {playerId} |->
               IF p = playerId THEN NewPlayer ELSE rm.players[p]]]

\* removePlayer: bot ids ("cpu_...") never equal a client id, so only the
\* human map is affected when a client id is passed
RemovePlayer(rm, playerId) ==
  [rm EXCEPT !.players = [p \in Humans(rm) \ {playerId} |-> rm.players[p]]]

\* cpuPlayers.forEach(cpu => cpu.stop())
StopAllCPU(rm) == [rm EXCEPT !.cpuPlayers = BagOfAll(CPUStop, @)]

NumCPU(rm) == BagCardinality(rm.cpuPlayers)

AliveHumans(rm) == {p \in Humans(rm) : rm.players[p].isAlive}

AliveCPUs(rm) ==
  LET alive == [isAlive |-> TRUE, updateInterval |-> TRUE]
      idle == [isAlive |-> TRUE, updateInterval |-> FALSE]
  IN CopiesIn(alive, rm.cpuPlayers) + CopiesIn(idle, rm.cpuPlayers)

\* getAllPlayers().filter(p => p.isAlive).length
AliveCount(rm) == Cardinality(AliveHumans(rm)) + AliveCPUs(rm)

\* broadcastToRoom returns at once when the room is not in the registry
Broadcast(registered, type) == IF registered THEN {type} ELSE {}

\* mutant: the thresholds of the backfill table tested with < instead of <=
TargetTotalStrict(currentPlayers) ==
  IF currentPlayers < 2 THEN TARGET_SMALL
  ELSE IF currentPlayers < 5 THEN TARGET_MEDIUM
  ELSE TARGET_DEFAULT

\* the backfill table of startGame
TargetTotal(currentPlayers) ==
  IF currentPlayers <= 2 THEN TARGET_SMALL
  ELSE IF currentPlayers <= 5 THEN TARGET_MEDIUM
  ELSE TARGET_DEFAULT

\* mutant: the body of startGame without its clearTimeout
StartGameBodyKeepTimer(rm, registered) ==
  LET currentPlayers == Cardinality(Humans(rm)) + NumCPU(rm)
      needed == TargetTotal(currentPlayers) - currentPlayers
      filled == IF rm.isQuickMatch /\ needed > 0
                  THEN rm.cpuPlayers (+) Copies(NewCPU, needed)
                  ELSE rm.cpuPlayers
  IN [rm |-> [rm EXCEPT !.cpuPlayers = BagOfAll(CPUStart, filled),
                        !.gameStarted = TRUE,
                        !.gameEnded = FALSE,
                        !.startTime = @ + 1,
                        !.gameEndsSent = 0],
      out |-> Broadcast(registered, "gameStart")]

\* Room.startGame after its guard: clear the match timer, backfill bots
\* (quick match only), set the flags and the start time, start every bot,
\* broadcast gameStart
StartGameBody(rm, registered) ==
  LET currentPlayers == Cardinality(Humans(rm)) + NumCPU(rm)
      needed == TargetTotal(currentPlayers) - currentPlayers
      filled == IF rm.isQuickMatch /\ needed > 0
                  THEN rm.cpuPlayers (+) Copies(NewCPU, needed)
                  ELSE rm.cpuPlayers
  IN [rm |-> [rm EXCEPT !.matchTimer = "null",
                        !.cpuPlayers = BagOfAll(CPUStart, filled),
                        !.gameStarted = TRUE,
                        !.gameEnded = FALSE,
                        !.startTime = @ + 1,
                        !.gameEndsSent = 0],
      out |-> Broadcast(registered, "gameStart")]

\* mutant: startGame without its "already started" guard
StartGameNoGuard(rm, registered) == StartGameBody(rm, registered)

\* Room.startGame: result room and the broadcasts it made
StartGame(rm, registered) ==
  IF rm.gameStarted
    THEN [rm |-> rm, out |-> {}]
    ELSE StartGameBody(rm, registered)

\* mutant: endGame that does not record that the game has ended
EndGameNoFlag(rm, registered) ==
  IF rm.gameEnded
    THEN [rm |-> rm, out |-> {}]
    ELSE [rm |-> [StopAllCPU(rm) EXCEPT
                    !.gameStarted = FALSE,
                    !.gameEndsSent = IF registered THEN @ + 1 ELSE @],
          out |-> Broadcast(registered, "gameEnd")]

\* Room.endGame
EndGame(rm, registered) ==
  IF rm.gameEnded
    THEN [rm |-> rm, out |-> {}]
    ELSE [rm |-> [StopAllCPU(rm) EXCEPT
                    !.gameEnded = TRUE,
                    !.gameStarted = FALSE,
                    !.gameEndsSent = IF registered THEN @ + 1 ELSE @],
          out |-> Broadcast(registered, "gameEnd")]

\* mutant: the game ends only when nobody is left alive
CheckGameEndNobody(rm, registered) ==
  IF rm.gameEnded
    THEN [rm |-> rm, out |-> {}]
    ELSE IF AliveCount(rm) < 1
      THEN EndGame(rm, registered)
      ELSE [rm |-> rm, out |-> {}]

\* checkGameEnd(room)
CheckGameEnd(rm, registered) ==
  IF rm.gameEnded
    THEN [rm |-> rm, out |-> {}]
    ELSE IF AliveCount(rm) <= 1
      THEN EndGame(rm, registered)
      ELSE [rm |-> rm, out |-> {}]

\* mutant: the comparator without its test of isAlive
CompareScoreOnly(a, b) == b.score - a.score

\* the comparator calculateRankings passes to sort
Compare(a, b) ==
  IF a.isAlive # b.isAlive
    THEN (IF b.isAlive THEN 1 ELSE -1)
    ELSE b.score - a.score

RECURSIVE SortInsert(_, _)
\* x placed behind the elements that do not compare greater than it
SortInsert(sorted, x) ==
  IF sorted = << >>
    THEN <<x>>
    ELSE IF Compare(Head(sorted), x) > 0
      THEN <<x>> \o sorted
      ELSE <<Head(sorted)>> \o SortInsert(Tail(sorted), x)

RECURSIVE Sort(_)
\* Array.prototype.sort with the comparator above: the stable sort
Sort(list) ==
  IF list = << >>
    THEN << >>
    ELSE SortInsert(Sort(SubSeq(list, 1, Len(list) - 1)), list[Len(list)])

\* calculateRankings() on the list collected from players and cpuPlayers
CalculateRankings(list) == Sort(list)

\* ---------------------------------------------------------------- matchmaking
RECURSIVE AddPlayers(_, _)
\* players.forEach(playerInfo => room.addPlayer(...)) in createMatch
AddPlayers(rm, players) ==
  IF players = << >>
    THEN rm
    ELSE AddPlayers(AddPlayer(rm, Head(players).ws), Tail(players))

\* the Room built by createMatch(players, rank), match timer armed
MatchRoom(players, rank) ==
  [AddPlayers([NewRoom("", MAX_PLAYERS, TRUE, rank) EXCEPT
                 !.entries = {e.eid : e \in Range(players)}],
              players)
     EXCEPT !.matchTimer = "armed"]

\* mutant: the fill threshold tested with > instead of >=
TryMatchmakingLate(queue) ==
  IF Len(queue) > IDEAL_PLAYERS
    THEN [matched |-> SubSeq(queue, 1, IDEAL_PLAYERS),
          rest |-> SubSeq(queue, IDEAL_PLAYERS + 1, Len(queue))]
    ELSE [matched |-> << >>, rest |-> queue]

\* tryMatchmaking(rank): what queue.splice(0, IDEAL_PLAYERS) takes and leaves
TryMatchmaking(queue) ==
  IF Len(queue) < MIN_PLAYERS
    THEN [matched |-> << >>, rest |-> queue]
    ELSE IF Len(queue) >= IDEAL_PLAYERS
      THEN [matched |-> SubSeq(queue, 1, IDEAL_PLAYERS),
            rest |-> SubSeq(queue, IDEAL_PLAYERS + 1, Len(queue))]
      ELSE [matched |-> << >>, rest |-> queue]

\* mutant: queue.slice in place of queue.splice (the entries stay queued)
ForceMatchSlice(queue, ws) ==
  IF FindIndex(queue, ws) # 0 /\ Len(queue) >= MIN_PLAYERS
    THEN [matched |-> SubSeq(queue, 1, Min(Len(queue), MAX_PLAYERS)), rest |-> queue]
    ELSE [matched |-> << >>, rest |-> queue]

\* mutant: the forced match waits for IDEAL_PLAYERS instead of MIN_PLAYERS
ForceMatchIdeal(queue, ws) ==
  IF FindIndex(queue, ws) # 0 /\ Len(queue) >= IDEAL_PLAYERS
    THEN [matched |-> queue, rest |-> << >>]
    ELSE [matched |-> << >>, rest |-> queue]

\* the setTimeout callback of handleQuickMatch, on the queue of its rank
ForceMatch(queue, ws) ==
  IF FindIndex(queue, ws) # 0 /\ Len(queue) >= MIN_PLAYERS
    THEN LET n == Min(Len(queue), MAX_PLAYERS)
         IN [matched |-> SubSeq(queue, 1, n),
             rest |-> SubSeq(queue, n + 1, Len(queue))]
    ELSE [matched |-> << >>, rest |-> queue]

\* createMatch(players, rank) when players is non-empty, nothing otherwise
CreateMatch(players, rank) ==
  IF players = << >>
    THEN UNCHANGED <<rooms, room, roomId>>
    ELSE LET id == Len(room) + 1
         IN /\ room' = Append(room, MatchRoom(players, rank))
            /\ rooms' = rooms \cup {id}
            /\ roomId' = [c \in Clients |->
                            IF c \in clients /\ \E e \in Range(players) : e.ws = c
                              THEN id ELSE roomId[c]]

\* ---------------------------------------------------------------- events
\* last records the handler or callback that ran last, the room it acted on
\* and the message types it sent or broadcast: the observable side of a step.
\* ret before any method of the bot or calculateRankings has been called
NoRet == [op |-> "none", val |-> << >>]

\* the variables of the server proper
server == <<clients, closed, roomId, rankQueues, mmTimers, enqueued, rooms, room, last>>

\* the server after start-up: no connection, empty queues, no room
Init ==
  /\ clients = {}
  /\ closed = {}
  /\ roomId = [c \in Clients |-> NoRoom]
  /\ rankQueues = [r \in Ranks |-> << >>]
  /\ mmTimers = {}
  /\ enqueued = [c \in Clients |-> 0]
  /\ rooms = {}
  /\ room = << >>
  /\ last = [op |-> "init", rid |-> NoRoom, sent |-> {}]
  /\ bot = NewCPUPlayer
  /\ allPlayers = << >>
  /\ ret = NoRet

\* wss.on('connection')
Connect(c) ==
  /\ c \notin clients \cup closed
  /\ clients' = clients \cup {c}
  /\ last' = [op |-> "connection", rid |-> NoRoom, sent |-> {"connected"}]
  /\ UNCHANGED <<closed, roomId, rankQueues, mmTimers, enqueued, rooms, room, bot, allPlayers, ret>>

\* handleQuickMatch(ws, {rank})
HandleQuickMatch(c, rank) ==
  /\ c \in clients
  /\ LET entry == [ws |-> c, eid |-> <<c, enqueued[c] + 1>>]
         split == TryMatchmaking(Append(rankQueues[rank], entry))
     IN /\ rankQueues' = [rankQueues EXCEPT ![rank] = split.rest]
        /\ CreateMatch(split.matched, rank)
        /\ mmTimers' = mmTimers \cup {[ws |-> c, rank |-> rank, eid |-> entry.eid]}
        /\ last' = [op |-> "quickMatch",
                    rid |-> IF split.matched = << >> THEN NoRoom ELSE Len(room) + 1,
                    sent |-> {"quickMatchWaiting"} \cup
                             (IF split.matched = << >> THEN {} ELSE {"quickMatchFound"})]
  /\ enqueued' = [enqueued EXCEPT ![c] = @ + 1]
  /\ UNCHANGED <<clients, closed, bot, allPlayers, ret>>

\* the setTimeout callback armed by handleQuickMatch (MATCH_TIMEOUT later)
MatchTimeout(t) ==
  /\ t \in mmTimers
  /\ mmTimers' = mmTimers \ {t}
  /\ LET split == ForceMatch(rankQueues[t.rank], t.ws)
     IN /\ rankQueues' = [rankQueues EXCEPT ![t.rank] = split.rest]
        /\ CreateMatch(split.matched, t.rank)
        /\ last' = [op |-> "matchTimeout",
                    rid |-> IF split.matched = << >> THEN NoRoom ELSE Len(room) + 1,
                    sent |-> IF split.matched = << >> THEN {} ELSE {"quickMatchFound"}]
  /\ UNCHANGED <<clients, closed, enqueued, bot, allPlayers, ret>>

\* ws.on('close')
Close(c) ==
  /\ c \in clients
  /\ LET rid == roomId[c]
     IN IF rid # NoRoom /\ rid \in rooms
          THEN LET removed == RemovePlayer(room[rid], c)
                   checked == IF removed.gameStarted
                                THEN CheckGameEnd(removed, TRUE)
                                ELSE [rm |-> removed, out |-> {}]
                   empty == Humans(checked.rm) = {}
               IN /\ room' = [room EXCEPT ![rid] =
                                IF empty THEN StopAllCPU(checked.rm) ELSE checked.rm]
                  /\ rooms' = IF empty THEN rooms \ {rid} ELSE rooms
                  /\ last' = [op |-> "close", rid |-> rid,
                              sent |-> {"playerDisconnected"} \cup checked.out]
          ELSE /\ UNCHANGED <<rooms, room>>
               /\ last' = [op |-> "close", rid |-> NoRoom, sent |-> {}]
  /\ rankQueues' = [r \in Ranks |->
                      LET i == FindIndex(rankQueues[r], c)
                      IN IF i # 0 THEN RemoveAt(rankQueues[r], i) ELSE rankQueues[r]]
  /\ clients' = clients \ {c}
  /\ closed' = closed \cup {c}
  /\ roomId' = [roomId EXCEPT ![c] = NoRoom]
  /\ UNCHANGED <<mmTimers, enqueued, bot, allPlayers, ret>>

\* handleCreateRoom(ws, {password, maxPlayers}); maxPlayers is taken from the
\* message as it is, a falsy value (absent, 0) becoming 99; the result of
\* addPlayer is not looked at
HandleCreateRoom(c, password, maxPlayers) ==
  /\ c \in clients
  /\ LET id == Len(room) + 1
         capacity == IF maxPlayers = 0 THEN DEFAULT_MAX_PLAYERS ELSE maxPlayers
     IN /\ room' = Append(room, AddPlayer(NewRoom(password, capacity, FALSE, "C"), c))
        /\ rooms' = rooms \cup {id}
        /\ roomId' = [roomId EXCEPT ![c] = id]
        /\ last' = [op |-> "createRoom", rid |-> id, sent |-> {"roomCreated"}]
  /\ UNCHANGED <<clients, closed, rankQueues, mmTimers, enqueued, bot, allPlayers, ret>>

\* handleJoinRoom(ws, {roomId, password})
HandleJoinRoom(c, rid, password) ==
  /\ c \in clients
  /\ IF \/ rid \notin rooms
        \/ room[rid].gameStarted
        \/ (room[rid].password # "" /\ room[rid].password # password)
        \/ ~AddPlayerOk(room[rid])
       THEN /\ last' = [op |-> "joinRoom", rid |-> rid, sent |-> {"error"}]
            /\ UNCHANGED <<roomId, room>>
       ELSE /\ room' = [room EXCEPT ![rid] = AddPlayer(@, c)]
            /\ roomId' = [roomId EXCEPT ![c] = rid]
            /\ last' = [op |-> "joinRoom", rid |-> rid,
                        sent |-> {"roomJoined", "playerJoined"}]
  /\ UNCHANGED <<clients, closed, rankQueues, mmTimers, enqueued, rooms, bot, allPlayers, ret>>

\* handleLeaveRoom(ws)
HandleLeaveRoom(c) ==
  /\ c \in clients
  /\ roomId[c] # NoRoom
  /\ LET rid == roomId[c]
     IN IF rid \in rooms
          THEN LET removed == RemovePlayer(room[rid], c)
                   empty == Humans(removed) = {}
               IN /\ room' = [room EXCEPT ![rid] =
                                IF empty THEN StopAllCPU(removed) ELSE removed]
                  /\ rooms' = IF empty THEN rooms \ {rid} ELSE rooms
                  /\ last' = [op |-> "leaveRoom", rid |-> rid, sent |-> {"playerLeft"}]
          ELSE /\ UNCHANGED <<rooms, room>>
               /\ last' = [op |-> "leaveRoom", rid |-> rid, sent |-> {}]
  /\ roomId' = [roomId EXCEPT ![c] = NoRoom]
  /\ UNCHANGED <<clients, closed, rankQueues, mmTimers, enqueued, bot, allPlayers, ret>>

\* handleStartGame(ws)
HandleStartGame(c) ==
  /\ c \in clients
  /\ roomId[c] # NoRoom
  /\ LET rid == roomId[c]
     IN IF rid \in rooms
          THEN LET res == StartGame(room[rid], TRUE)
               IN /\ room' = [room EXCEPT ![rid] = res.rm]
                  /\ last' = [op |-> "startGame", rid |-> rid, sent |-> res.out]
          ELSE /\ UNCHANGED room
               /\ last' = [op |-> "startGame", rid |-> rid, sent |-> {}]
  /\ UNCHANGED <<clients, closed, roomId, rankQueues, mmTimers, enqueued, rooms, bot, allPlayers, ret>>

\* handleForceStart(ws)
HandleForceStart(c) ==
  /\ c \in clients
  /\ roomId[c] # NoRoom
  /\ LET rid == roomId[c]
     IN IF rid \in rooms /\ ~room[rid].gameStarted
          THEN LET res == StartGame(room[rid], TRUE)
               IN /\ room' = [room EXCEPT ![rid] = res.rm]
                  /\ last' = [op |-> "forceStart", rid |-> rid, sent |-> res.out]
          ELSE /\ UNCHANGED room
               /\ last' = [op |-> "forceStart", rid |-> rid, sent |-> {}]
  /\ UNCHANGED <<clients, closed, roomId, rankQueues, mmTimers, enqueued, rooms, bot, allPlayers, ret>>

\* the setTimeout callback armed by Room.startMatchTimer; the Room object is
\* held by the closure, whether or not it is still in the registry
MatchTimerFire(rid) ==
  /\ rid \in 1..Len(room)
  /\ room[rid].matchTimer = "armed"
  /\ LET res == StartGame([room[rid] EXCEPT !.matchTimer = "fired"], rid \in rooms)
     IN /\ room' = [room EXCEPT ![rid] = res.rm]
        /\ last' = [op |-> "matchTimer", rid |-> rid, sent |-> res.out]
  /\ UNCHANGED <<clients, closed, roomId, rankQueues, mmTimers, enqueued, rooms, bot, allPlayers, ret>>

\* handleGameOver(ws)
HandleGameOver(c) ==
  /\ c \in clients
  /\ roomId[c] # NoRoom
  /\ roomId[c] \in rooms
  /\ LET rid == roomId[c]
         died == IF c \in Humans(room[rid])
                   THEN [room[rid] EXCEPT !.players[c].isAlive = FALSE]
                   ELSE room[rid]
         res == CheckGameEnd(died, TRUE)
     IN /\ room' = [room EXCEPT ![rid] = res.rm]
        /\ last' = [op |-> "gameOver", rid |-> rid, sent |-> {"playerDied"} \cup res.out]
  /\ UNCHANGED <<clients, closed, roomId, rankQueues, mmTimers, enqueued, rooms, bot, allPlayers, ret>>

\* handleRequestGameEnd(ws)
HandleRequestGameEnd(c) ==
  /\ c \in clients
  /\ roomId[c] # NoRoom
  /\ roomId[c] \in rooms
  /\ LET rid == roomId[c]
         res == CheckGameEnd(room[rid], TRUE)
     IN /\ room' = [room EXCEPT ![rid] = res.rm]
        /\ last' = [op |-> "requestGameEnd", rid |-> rid, sent |-> res.out]
  /\ UNCHANGED <<clients, closed, roomId, rankQueues, mmTimers, enqueued, rooms, bot, allPlayers, ret>>

\* handleGameUpdate(ws, data): the score, line count and field it stores in
\* the player record decide no transition; the playerUpdate broadcast goes to
\* every other human of the room (excludeWs = ws), whatever the phase
HandleGameUpdate(c) ==
  /\ c \in clients
  /\ roomId[c] # NoRoom
  /\ roomId[c] \in rooms
  /\ last' = [op |-> "gameUpdate", rid |-> roomId[c],
              sent |-> IF Humans(room[roomId[c]]) \ {c} # {}
                         THEN {"playerUpdate"} ELSE {}]
  /\ UNCHANGED <<clients, closed, roomId, rankQueues, mmTimers, enqueued, rooms, room, bot, allPlayers, ret>>

\* CPUPlayer.die(room) applied to one bot of the room
Die(rm, cpu, registered) ==
  LET dead == [isAlive |-> FALSE, updateInterval |-> FALSE]
      res == CheckGameEnd([rm EXCEPT !.cpuPlayers = (@ (-) SetToBag({cpu})) (+) SetToBag({dead})],
                          registered)
  IN [rm |-> res.rm, out |-> Broadcast(registered, "playerDied") \cup res.out]

\* the target when sendAttack finds no living record
NoTarget == 0

\* CPUPlayer.sendAttack(room): the candidates are the living records of
\* room.players, the map of the humans; room.cpuPlayers is not read, so no
\* bot is among them
SendAttack(rm) == [humans |-> AliveHumans(rm), cpus |-> 0]

\* the setInterval callback of CPUPlayer.start, for a bot whose interval is
\* set; alive is the value playMove() returns.  A surviving bot broadcasts
\* its update and, if the attack roll succeeds, picks one of the candidates of
\* sendAttack and sends it "attacked" if its socket is open; the attack
\* writes no server state.
BotTick(rid, cpu, alive) ==
  /\ rid \in 1..Len(room)
  /\ BagIn(cpu, room[rid].cpuPlayers)
  /\ cpu.updateInterval
  /\ LET rm == room[rid]
     IN IF ~cpu.isAlive \/ ~rm.gameStarted
          THEN /\ room' = [room EXCEPT ![rid].cpuPlayers =
                             (@ (-) SetToBag({cpu})) (+) SetToBag({CPUStop(cpu)})]
               /\ last' = [op |-> "botTick", rid |-> rid, sent |-> {}]
          ELSE IF ~alive
            THEN LET res == Die(rm, cpu, rid \in rooms)
                 IN /\ room' = [room EXCEPT ![rid] = res.rm]
                    /\ last' = [op |-> "botTick", rid |-> rid, sent |-> res.out]
            ELSE /\ room' = room
                 /\ \/ last' = [op |-> "botTick", rid |-> rid,
                                sent |-> Broadcast(rid \in rooms, "playerUpdate")]
                    \/ \E target \in (IF SendAttack(rm).humans = {}
                                        THEN {NoTarget} ELSE SendAttack(rm).humans) :
                         last' = [op |-> "botTick", rid |-> rid,
                                  sent |-> Broadcast(rid \in rooms, "playerUpdate")
                                             \cup (IF target \in clients
                                                     THEN {"attacked"} ELSE {}),
                                  targets |-> SendAttack(rm),
                                  target |-> target]
  /\ UNCHANGED <<clients, closed, roomId, rankQueues, mmTimers, enqueued, rooms, bot, allPlayers, ret>>

CPUStates == [isAlive : BOOLEAN, updateInterval : BOOLEAN]

\* the shuffle refillBag draws if getNextPiece finds the bag of c empty
RefillChoices(c) == IF Len(c.bag) = 0 THEN Shuffles ELSE {c.bag}

\* one call of getNextPiece() on the bot
CallGetNextPiece ==
  /\ \E shuffled \in RefillChoices(bot) :
       LET res == GetNextPiece(bot, shuffled)
       IN /\ bot' = res.cpu
          /\ ret' = [op |-> "getNextPiece", val |-> res.piece]
  /\ UNCHANGED <<server, allPlayers>>

\* the shuffles drawn in the runs of one bot's play
PlayShuffles ==
  { <<"I", "J", "L", "O", "S", "T", "Z">>,
    <<"Z", "S", "T", "J", "L", "O", "I">> }

\* the shuffle refillBag draws if one of the next n getNextPiece calls finds
\* the bag of c empty
PlayChoices(c, n) == IF Len(c.bag) < n THEN PlayShuffles ELSE {c.bag}

\* start(room) on a bot whose interval is not set (startGame runs its body
\* only while the game is not started, and endGame has stopped every bot):
\* two pieces are drawn and the interval is set; field, score and isAlive stay
CallStart ==
  /\ ~bot.updateInterval
  /\ \E shuffled \in PlayChoices(bot, 2) :
       bot' = [StartPieces(bot, shuffled) EXCEPT !.updateInterval = TRUE,
                                                 !.calls = @ + 1, !.starts = @ + 1]
  /\ ret' = [op |-> "start", val |-> << >>, sent |-> {}]
  /\ UNCHANGED <<server, allPlayers>>

\* stop() called on the bot by endGame or by the teardown of its room
CallStop ==
  /\ bot.updateInterval
  /\ bot' = [bot EXCEPT !.updateInterval = FALSE, !.calls = @ + 1]
  /\ ret' = [op |-> "stop", val |-> << >>, sent |-> {}]
  /\ UNCHANGED <<server, allPlayers>>

\* mutant: the tick without its test of isAlive and gameStarted
TickNoGuard(gameStarted) ==
  /\ bot.updateInterval
  /\ \E shuffled \in PlayChoices(bot, 1) :
       \E res \in {PlayMove(bot, shuffled)} :
         /\ bot' = [res.cpu EXCEPT !.isAlive = res.alive,
                                   !.updateInterval = res.alive,
                                   !.calls = @ + 1]
         /\ \E attack \in (IF res.alive THEN BOOLEAN ELSE {FALSE}) :
              ret' = [op |-> "playMove", val |-> res.alive, bestMove |-> res.bestMove,
                      sent |-> IF ~res.alive THEN {"playerDied"}
                               ELSE IF attack THEN {"playerUpdate", "attacked"}
                               ELSE {"playerUpdate"}]
  /\ UNCHANGED <<server, allPlayers>>

\* the setInterval callback of start(room), gameStarted being the flag of the
\* room; attack is whether sendAttack is called and finds a living human.
\* A dead bot or a bot of a room that is not started only stops; otherwise
\* playMove() runs, and the bot dies (die: isAlive false, stop, playerDied)
\* when it returns false, else broadcasts its update and may attack
Tick(gameStarted) ==
  /\ bot.updateInterval
  /\ IF ~bot.isAlive \/ ~gameStarted
       THEN /\ bot' = [bot EXCEPT !.updateInterval = FALSE, !.calls = @ + 1]
            /\ ret' = [op |-> "tickStop", val |-> << >>, sent |-> {}]
       ELSE \E shuffled \in PlayChoices(bot, 1) :
              \E res \in {PlayMove(bot, shuffled)} :
                /\ bot' = [res.cpu EXCEPT !.isAlive = res.alive,
                                          !.updateInterval = res.alive,
                                          !.calls = @ + 1]
                /\ \E attack \in (IF res.alive THEN BOOLEAN ELSE {FALSE}) :
                     ret' = [op |-> "playMove", val |-> res.alive,
                             bestMove |-> res.bestMove,
                             sent |-> IF ~res.alive THEN {"playerDied"}
                                      ELSE IF attack THEN {"playerUpdate", "attacked"}
                                      ELSE {"playerUpdate"}]
  /\ UNCHANGED <<server, allPlayers>>

\* receiveAttack(lines) on a living bot (handleAttack picks living targets),
\* holePos being the holes drawn
CallReceiveAttack(lines, holePos) ==
  /\ bot.isAlive
  /\ bot' = [bot EXCEPT !.field = ReceiveAttack(@, lines, holePos),
                        !.calls = @ + 1]
  /\ ret' = [op |-> "receiveAttack", val |-> lines, sent |-> {}]
  /\ UNCHANGED <<server, allPlayers>>

\* one call of calculateRankings() on the members collected in allPlayers
CallCalculateRankings ==
  /\ allPlayers # << >>
  /\ ret' = [op |-> "calculateRankings", val |-> CalculateRankings(allPlayers)]
  /\ UNCHANGED <<server, bot, allPlayers>>

\* one call of clearLines() on the bot
CallClearLines ==
  /\ \E res \in {ClearLines(bot)} :
       /\ bot' = res.cpu
       /\ ret' = [op |-> "clearLines", val |-> res.lines, before |-> bot.field]
  /\ UNCHANGED <<server, allPlayers>>

\* values of data.maxPlayers in a createRoom message: 0 stands for an absent
\* (or zero) field; the handler does not validate the number
MaxPlayersInputs == {-1, 0, 1}

\* ---------------------------------------------------------------- bounds of the runs
\* The handlers above are unguarded translations; the guards below keep a
\* behaviour finite: the number of quickMatch and createRoom messages, and the
\* number of times one room runs the body of startGame (its startTime counter).
RECURSIVE Sum(_, _)
Sum(f, S) == IF S = {} THEN 0 ELSE LET x == CHOOSE y \in S : TRUE IN f[x] + Sum(f, S \ {x})

CanEnqueue(max) == Sum(enqueued, Clients) < max

CanCreateRoom == Cardinality({i \in 1..Len(room) : ~room[i].isQuickMatch}) < MaxCreateRoom

CanStart(rid) ==
  rid \in 1..Len(room) => (room[rid].gameStarted \/ room[rid].startTime < MaxStarts)

\* matchmaking: the handlers and callbacks that read or write rankQueues;
\* no other handler of the server touches a queue or a matchmaking timer
\* the state after wss.on('connection') has run for every connection
InitConnected ==
  /\ clients = Clients
  /\ closed = {}
  /\ roomId = [c \in Clients |-> NoRoom]
  /\ rankQueues = [r \in Ranks |-> << >>]
  /\ mmTimers = {}
  /\ enqueued = [c \in Clients |-> 0]
  /\ rooms = {}
  /\ room = << >>
  /\ last = [op |-> "connection", rid |-> NoRoom, sent |-> {"connected"}]
  /\ bot = NewCPUPlayer
  /\ allPlayers = << >>
  /\ ret = NoRet

NextMatch ==
  \/ \E c \in Clients, rank \in Ranks : CanEnqueue(MaxEnqueue) /\ HandleQuickMatch(c, rank)
  \/ \E t \in mmTimers : MatchTimeout(t)
  \/ \E c \in Clients : Close(c)

SpecMatch == InitConnected /\ [][NextMatch]_vars

\* matchmaking with every armed timeout eventually firing (setTimeout with a
\* fixed delay: the event loop runs each callback once its delay has passed)
NextMatchLive ==
  \/ \E c \in LiveClients, rank \in Ranks : CanEnqueue(MaxLiveEnqueue) /\ HandleQuickMatch(c, rank)
  \/ \E t \in mmTimers : MatchTimeout(t)
  \/ \E c \in LiveClients : Close(c)

TimerIds == {[ws |-> c, rank |-> r, eid |-> <<c, n>>] :
               c \in LiveClients, r \in Ranks, n \in 1..MaxLiveEnqueue}

SpecMatchFair ==
  /\ InitConnected
  /\ [][NextMatchLive]_vars
  /\ \A t \in TimerIds : WF_vars(MatchTimeout(t))

\* the life of quick-match rooms: matchmaking for fewer connections, then
\* start, play (bot ticks included), end and teardown
Next ==
  \/ \E c \in GameClients : Connect(c)
  \/ \E c \in GameClients, rank \in GameRanks :
       CanEnqueue(MaxGameEnqueue) /\ HandleQuickMatch(c, rank)
  \/ \E t \in mmTimers : MatchTimeout(t)
  \/ \E c \in GameClients : Close(c)
  \/ \E c \in GameClients : HandleLeaveRoom(c)
  \/ \E c \in GameClients : CanStart(roomId[c]) /\ HandleStartGame(c)
  \/ \E c \in GameClients : CanStart(roomId[c]) /\ HandleForceStart(c)
  \/ \E rid \in 1..MaxRooms : CanStart(rid) /\ MatchTimerFire(rid)
  \/ \E c \in GameClients : HandleGameOver(c)
  \/ \E c \in GameClients : HandleRequestGameEnd(c)
  \/ \E rid \in 1..MaxRooms, cpu \in CPUStates, alive \in BOOLEAN : BotTick(rid, cpu, alive)

Spec == Init /\ [][Next]_vars

\* the life of rooms made by createRoom: no queue, no bot
NextRooms ==
  \/ \E c \in RoomClients : Connect(c)
  \/ \E c \in RoomClients, pw \in Passwords, mp \in MaxPlayersInputs :
       CanCreateRoom /\ HandleCreateRoom(c, pw, mp)
  \/ \E c \in RoomClients, rid \in 1..MaxRooms, pw \in Passwords : HandleJoinRoom(c, rid, pw)
  \/ \E c \in RoomClients : HandleLeaveRoom(c)
  \/ \E c \in RoomClients : Close(c)
  \/ \E c \in RoomClients : CanStart(roomId[c]) /\ HandleStartGame(c)
  \/ \E c \in RoomClients : CanStart(roomId[c]) /\ HandleForceStart(c)
  \/ \E c \in RoomClients : HandleGameOver(c)
  \/ \E c \in RoomClients : HandleRequestGameEnd(c)
  \/ \E c \in RoomClients : HandleGameUpdate(c)

SpecRooms == Init /\ [][NextRooms]_vars

\* the start of a quick-match session of any size: createMatch has built the
\* session from two queue entries and armed its match-start timer, joinRoom
\* and leaveRoom messages have brought its human map to n records, and the
\* session is still WAITING (no bot exists before startGame)
InitFill ==
  \E n \in 1..MaxFillHumans :
    /\ clients = FillClients
    /\ closed = {}
    /\ roomId = [c \in Clients |-> IF c \in FillClients /\ c <= n THEN 1 ELSE NoRoom]
    /\ rankQueues = [r \in Ranks |-> << >>]
    /\ mmTimers = {}
    /\ enqueued = [c \in Clients |-> IF c \in FillClients THEN 1 ELSE 0]
    /\ rooms = {1}
    /\ room = << [MatchRoom(<<[ws |-> 1, eid |-> <<1, 1>>], [ws |-> 2, eid |-> <<2, 1>>]>>, "C")
                   EXCEPT !.players = [p \in 1..n |-> NewPlayer]] >>
    /\ last = [op |-> "joinRoom", rid |-> 1, sent |-> {"roomJoined", "playerJoined"}]
    /\ bot = NewCPUPlayer
    /\ allPlayers = << >>
    /\ ret = NoRet

NextFill ==
  \/ \E c \in FillClients : HandleJoinRoom(c, 1, "")
  \/ \E c \in FillClients : HandleLeaveRoom(c)
  \/ \E c \in FillClients : HandleStartGame(c)
  \/ \E c \in FillClients : HandleForceStart(c)
  \/ MatchTimerFire(1)

SpecFill == InitFill /\ [][NextFill]_vars

\* the piece bag of one bot: getNextPiece called again and again
NextBag == CallGetNextPiece

SpecBag == Init /\ [][NextBag]_vars

\* the positions of the hole of a garbage line drawn in the runs
HolePositions == {0, 9}

\* one bot playing: started once (startGame starts each new bot), then ticking
\* and attacked (handleAttack finds the bots of a session that was started)
NextCPU ==
  \/ bot.calls = 0 /\ CallStart
  \/ bot.calls < MaxCalls /\ Tick(TRUE)
  \/ \E lines \in 1..MaxLines : \E holePos \in [1..lines -> HolePositions] :
       0 < bot.calls /\ bot.calls < MaxCalls /\ CallReceiveAttack(lines, holePos)

SpecCPU == Init /\ [][NextCPU]_vars

\* the whole life of one bot: started by startGame, ticking until it dies or
\* endGame stops it, started again by the startGame of the next game of its
\* room
NextGame ==
  \/ bot.starts < MaxBotStarts /\ bot.calls < MaxGameCalls /\ CallStart
  \/ bot.starts < MaxBotStarts /\ bot.calls < MaxGameCalls /\ CallStop
  \/ bot.calls < MaxGameCalls /\ Tick(TRUE)

SpecGame == Init /\ [][NextGame]_vars

\* scores the members may have: a human's score is what its gameUpdate and
\* gameOver messages say, a bot's score a sum of 100, 300, 500 and 800
Scores == {0, 100, 900}

\* the rankings of a session at endGame: the human records (in the order of
\* the players map) followed by the bots (in the order of cpuPlayers), each
\* with some score and some isAlive
InitRank ==
  /\ clients = {}
  /\ closed = {}
  /\ roomId = [c \in Clients |-> NoRoom]
  /\ rankQueues = [r \in Ranks |-> << >>]
  /\ mmTimers = {}
  /\ enqueued = [c \in Clients |-> 0]
  /\ rooms = {}
  /\ room = << >>
  /\ last = [op |-> "init", rid |-> NoRoom, sent |-> {}]
  /\ bot = NewCPUPlayer
  /\ ret = NoRet
  /\ \E n \in 1..MaxMembers, humans \in 0..MaxMembers :
       \E f \in [1..n -> [score : Scores, isAlive : BOOLEAN]] :
         /\ humans <= n
         /\ allPlayers = [i \in 1..n |->
                            [id |-> i, score |-> f[i].score, isAlive |-> f[i].isAlive,
                             isCPU |-> i > humans]]

NextRank == CallCalculateRankings

SpecRank == InitRank /\ [][NextRank]_vars

\* the rows a field given to clearLines is drawn from: an empty row, a full
\* row, a row with one empty cell and a row with one filled cell
RowKinds ==
  { EmptyRow,
    NewArray([x \in 1..FIELD_COLS |-> "#0ff"]),
    NewArray([x \in 1..FIELD_COLS |-> IF x = 1 THEN "" ELSE "#808080"]),
    NewArray([x \in 1..FIELD_COLS |-> IF x = 1 THEN "#f00" ELSE ""]) }

\* clearLines() as a function of the field: a bot whose field has any rows of
\* the four kinds in its top TopRows and bottom BottomRows rows
InitClear ==
  /\ clients = {}
  /\ closed = {}
  /\ roomId = [c \in Clients |-> NoRoom]
  /\ rankQueues = [r \in Ranks |-> << >>]
  /\ mmTimers = {}
  /\ enqueued = [c \in Clients |-> 0]
  /\ rooms = {}
  /\ room = << >>
  /\ last = [op |-> "init", rid |-> NoRoom, sent |-> {}]
  /\ allPlayers = << >>
  /\ ret = NoRet
  /\ \E top \in [1..TopRows -> RowKinds], bottom \in [1..BottomRows -> RowKinds] :
       bot = [NewCPUPlayer EXCEPT
                !.field = [y \in 1..FIELD_ROWS |->
                             IF y <= TopRows THEN top[y]
                             ELSE IF y > FIELD_ROWS - BottomRows
                               THEN bottom[y - (FIELD_ROWS - BottomRows)]
                               ELSE EmptyRow]]

NextClear == CallClearLines

SpecClear == InitClear /\ [][NextClear]_vars

\* ================================================================ claims
\* ---------------------------------------------------------------- helpers of the claims
\* the registered sessions that hold a human record of connection c
SessionsOf(c) == {r \in rooms : c \in Humans(room[r])}

\* the number of entries of connection c in one queue
EntriesIn(queue, c) == Cardinality({i \in 1..Len(queue) : queue[i].ws = c})

QueueClients(queue) == {e.ws : e \in Range(queue)}

QueueEntries(queue) == {e.eid : e \in Range(queue)}

\* C1: no client id is a human member of two sessions of the registry at the
\* same time, whatever quickMatch messages, matches, timeouts and disconnects
\* occur.
C1_OneSessionPerClient ==
  \A c \in Clients : Cardinality(SessionsOf(c)) <= 1

\* C2: a client has at most one entry across all rank queues (never two
\* entries in one queue, never entries in two queues).
C2_OneEntryPerClient ==
  \A c \in Clients :
    Cardinality({r \in Ranks : EntriesIn(rankQueues[r], c) > 0}) <= 1
    /\ \A r \in Ranks : EntriesIn(rankQueues[r], c) <= 1

\* C3: a quickMatch that brings its rank queue to IDEAL_PLAYERS entries of
\* distinct clients creates, within the same handler, one session whose
\* humans are exactly those clients (the whole queue, oldest first), flagged
\* quick-match with that rank, and leaves the queue empty; with fewer entries
\* the enqueue creates no session.
C3_Step(c, rank) ==
  LET queue == Append(rankQueues[rank], [ws |-> c, eid |-> <<c, enqueued[c] + 1>>])
  IN /\ (Len(queue) = IDEAL_PLAYERS /\ Cardinality(QueueClients(queue)) = IDEAL_PLAYERS)
          => /\ Len(room') = Len(room) + 1
             /\ rooms' = rooms \cup {Len(room')}
             /\ Len(room') \notin rooms
             /\ Humans(room'[Len(room')]) = QueueClients(queue)
             /\ room'[Len(room')].entries = QueueEntries(queue)
             /\ TryMatchmaking(queue).matched = queue
             /\ room'[Len(room')].isQuickMatch
             /\ room'[Len(room')].rank = rank
             /\ rankQueues'[rank] = << >>
     /\ Len(queue) < IDEAL_PLAYERS
          => /\ room' = room
             /\ rooms' = rooms
             /\ rankQueues'[rank] = queue

C3_IdealFill ==
  [][\A c \in Clients, rank \in Ranks : HandleQuickMatch(c, rank) => C3_Step(c, rank)]_vars

C3_Witness ==
  /\ last.op = "quickMatch"
  /\ "quickMatchFound" \in last.sent
  /\ last.rid \in rooms
  /\ Cardinality(Humans(room[last.rid])) = IDEAL_PLAYERS
  /\ \E r \in Ranks : room[last.rid].rank = r /\ rankQueues[r] = << >>

\* C4: a firing matchmaking timeout is all-or-nothing on the queue of its
\* rank: when the firing client is queued there and the queue holds at least
\* MIN_PLAYERS entries, every entry leaves the queue and goes into one new
\* session; otherwise queue, registry and rooms are unchanged.  No entry is
\* ever transferred into two sessions, nor stays queued once transferred.
C4_Step(t) ==
  LET queue == rankQueues[t.rank]
  IN /\ \A r \in Ranks \ {t.rank} : rankQueues'[r] = rankQueues[r]
     /\ IF t.ws \in QueueClients(queue) /\ Len(queue) >= MIN_PLAYERS
          THEN /\ rankQueues'[t.rank] = << >>
               /\ Len(room') = Len(room) + 1
               /\ SubSeq(room', 1, Len(room)) = room
               /\ rooms' = rooms \cup {Len(room')}
               /\ room'[Len(room')].entries = QueueEntries(queue)
               /\ Humans(room'[Len(room')]) = QueueClients(queue)
          ELSE /\ rankQueues' = rankQueues
               /\ room' = room
               /\ rooms' = rooms

C4_NoDoubleTransfer ==
  /\ \A i, j \in 1..Len(room) : i # j => room[i].entries \cap room[j].entries = {}
  /\ \A i \in 1..Len(room), r \in Ranks :
       room[i].entries \cap QueueEntries(rankQueues[r]) = {}

C4_TimeoutAtomic ==
  /\ [][\A t \in mmTimers : MatchTimeout(t) => C4_Step(t)]_vars
  /\ []C4_NoDoubleTransfer

C4_Witness ==
  /\ last.op = "matchTimeout"
  /\ "quickMatchFound" \in last.sent
  /\ \E t \in mmTimers : t.ws \in Humans(room[last.rid]) /\ t.rank = room[last.rid].rank
  /\ \E r \in Ranks : rankQueues[r] # << >>

\* C5: under fair firing of the timeout timers, a rank queue that holds at
\* least MIN_PLAYERS entries eventually holds fewer (it was matched into a
\* session, or disconnects shrank it): waiting clients do not wait forever.
C5_QueueEventuallyMatched ==
  \A r \in Ranks :
    (Len(rankQueues[r]) >= MIN_PLAYERS) ~> (Len(rankQueues[r]) < MIN_PLAYERS)

\* two entries wait although the timeout of the oldest has already fired
C5_Witness ==
  \E r \in Ranks :
    /\ Len(rankQueues[r]) >= MIN_PLAYERS
    /\ [ws |-> rankQueues[r][1].ws, rank |-> r, eid |-> rankQueues[r][1].eid] \notin mmTimers
    /\ last.op = "quickMatch"

\* the phases of a session
Waiting(rm) == ~rm.gameStarted /\ ~rm.gameEnded /\ rm.startTime = 0

Playing(rm) == rm.gameStarted

Ended(rm) == rm.gameEnded /\ ~rm.gameStarted

NoEffect(rm) == [rm |-> rm, out |-> {}]

\* C6: the phase is monotone: a session that has entered ENDED (from PLAYING)
\* never enters PLAYING again, whatever startGame / forceStart messages,
\* timers, gameOver and requestGameEnd messages follow.
C6_EndedNeverPlaying ==
  [][\A r \in 1..Len(room) :
       (Ended(room[r]) /\ room[r].startTime >= 1) => ~Playing(room'[r])]_vars

\* C7: a session enters ENDED only from PLAYING: a session in WAITING never
\* becomes ENDED and never broadcasts gameEnd.
C7_NoEndWhileWaiting ==
  [][\A r \in 1..Len(room) :
       Waiting(room[r]) =>
         /\ ~Ended(room'[r])
         /\ ~(last'.rid = r /\ "gameEnd" \in last'.sent)]_vars

\* C8: startGame on a session that is already PLAYING changes nothing (no bot
\* added, no bot timer started, start time unchanged, no gameStart sent), so
\* two consecutive startGame calls leave the state and the broadcasts of one.
C8_StartGameIdempotent ==
  /\ [][\A c \in GameClients :
          (HandleStartGame(c) /\ roomId[c] \in rooms /\ Playing(room[roomId[c]]))
            => (room' = room /\ rooms' = rooms /\ last'.sent = {})]_vars
  /\ [](\A r \in 1..Len(room) :
          /\ Playing(room[r]) => StartGame(room[r], r \in rooms) = NoEffect(room[r])
          /\ LET once == StartGame(room[r], r \in rooms)
             IN StartGame(once.rm, r \in rooms) = NoEffect(once.rm))

C8_Witness ==
  /\ last.op = "startGame"
  /\ last.rid \in rooms
  /\ Playing(room[last.rid])
  /\ last.sent = {}
  /\ NumCPU(room[last.rid]) > 0

\* C9: for each entry of a session into PLAYING at most one gameEnd broadcast
\* is produced, however many end-of-game checks follow; endGame on an ENDED
\* session changes no state and sends nothing.
C9_OneGameEnd ==
  \A r \in 1..Len(room) :
    /\ room[r].gameEndsSent <= 1
    /\ room[r].gameEnded => EndGame(room[r], r \in rooms) = NoEffect(room[r])
    /\ room[r].gameEnded => CheckGameEnd(room[r], r \in rooms) = NoEffect(room[r])

C9_Witness ==
  /\ last.op = "gameOver"
  /\ last.rid \in rooms
  /\ Ended(room[last.rid])
  /\ room[last.rid].startTime >= 1
  /\ room[last.rid].gameEndsSent = 1
  /\ "gameEnd" \notin last.sent

\* C10: right after the server has processed a death in a registered session
\* (a gameOver message, or a bot dying in its tick), the session is ENDED if
\* at most one member, human or bot, is alive.
DeathProcessed ==
  \/ last.op = "gameOver"
  \/ last.op = "botTick" /\ "playerDied" \in last.sent

C10_EndedAfterLastDeath ==
  (DeathProcessed /\ last.rid \in rooms /\ AliveCount(room[last.rid]) <= 1)
    => Ended(room[last.rid])

C10_Witness ==
  /\ last.op = "botTick"
  /\ last.sent = {"playerDied", "gameEnd"}
  /\ last.rid \in rooms
  /\ AliveCount(room[last.rid]) = 1
  /\ Ended(room[last.rid])

\* C11: a disconnect of a member of a PLAYING session acts on the session as
\* that member's gameOver message does: its record stays in the human map with
\* isAlive false, and the session is ENDED if at most one member is then alive.
C11_DisconnectAsGameOver ==
  [][\A c \in RoomClients :
       (/\ Close(c)
        /\ roomId[c] \in rooms
        /\ c \in Humans(room[roomId[c]])
        /\ Playing(room[roomId[c]]))
         => /\ c \in Humans(room'[roomId[c]])
            /\ ~room'[roomId[c]].players[c].isAlive
            /\ (AliveCount(room'[roomId[c]]) <= 1 => Ended(room'[roomId[c]]))]_vars

\* C12: no timer outlives its session: a session removed from the registry
\* has no armed match-start timer and no bot with a set interval, its bots
\* never change afterwards, and it never starts a game.
C12_NoTimerOutlivesSession ==
  /\ [](\A r \in (1..Len(room)) \ rooms :
          /\ room[r].matchTimer # "armed"
          /\ \A cpu \in CPUStates : BagIn(cpu, room[r].cpuPlayers) => ~cpu.updateInterval)
  /\ [][\A r \in (1..Len(room)) \ rooms :
          /\ room'[r].cpuPlayers = room[r].cpuPlayers
          /\ ~room[r].gameStarted => ~room'[r].gameStarted]_vars

\* C13: an event that finds a session in WAITING and leaves it in WAITING
\* broadcasts neither gameStart nor playerUpdate to its members.
C13_QuietWhileWaiting ==
  [][\A r \in 1..Len(room) :
       (Waiting(room[r]) /\ Waiting(room'[r]) /\ last'.rid = r)
         => last'.sent \cap {"gameStart", "playerUpdate"} = {}]_vars

\* C14: after every event, every session of the registry has at least one
\* human player record.
C14_RegistryHasHumans ==
  \A r \in rooms : Humans(room[r]) # {}

\* C17: a joinRoom for an unknown room id, a PLAYING session, a wrong password
\* or a full session sends an error to the requester and changes neither the
\* human map of any session nor the requester's roomId; the human count of a
\* session never exceeds its capacity.
C17_Step(c, rid, password) ==
  (\/ rid \notin rooms
   \/ Playing(room[rid])
   \/ (room[rid].password # "" /\ room[rid].password # password)
   \/ Cardinality(Humans(room[rid])) >= room[rid].maxPlayers)
    => /\ last'.sent = {"error"}
       /\ room' = room
       /\ roomId' = roomId

C17_JoinRejected ==
  /\ [][\A c \in RoomClients, rid \in 1..MaxRooms, password \in Passwords :
          HandleJoinRoom(c, rid, password) => C17_Step(c, rid, password)]_vars
  /\ [](\A r \in 1..Len(room) : Cardinality(Humans(room[r])) <= room[r].maxPlayers)

\* C15: when startGame takes a quick-match session with n members from
\* WAITING to PLAYING, the membership afterwards is 80 if n <= 2, 60 if
\* 3 <= n <= 5, 50 if 6 <= n <= 50 and n if n > 50; only bots are added and
\* the human map is unchanged.
C15_Expected(n) ==
  IF n <= 2 THEN 80 ELSE IF n <= 5 THEN 60 ELSE IF n <= 50 THEN 50 ELSE n

C15_Backfill ==
  [][\A r \in 1..Len(room) :
       (room[r].isQuickMatch /\ Waiting(room[r]) /\ Playing(room'[r]))
         => /\ Cardinality(Humans(room'[r])) + NumCPU(room'[r])
                 = C15_Expected(Cardinality(Humans(room[r])) + NumCPU(room[r]))
            /\ room'[r].players = room[r].players
            /\ NumCPU(room'[r]) >= NumCPU(room[r])]_vars

\* six humans were backfilled to fifty members
C15_Witness ==
  /\ rooms = {1}
  /\ Playing(room[1])
  /\ room[1].isQuickMatch
  /\ Cardinality(Humans(room[1])) = 6
  /\ NumCPU(room[1]) = 44
  /\ "gameStart" \in last.sent

\* C16: the rankings list every member exactly once, every living member
\* before every dead one, and scores do not increase within the living and
\* within the dead members.
C16_Rankings ==
  ret.op = "calculateRankings" =>
    /\ Len(ret.val) = Len(allPlayers)
    /\ \A p \in Range(allPlayers) :
         Cardinality({i \in 1..Len(ret.val) : ret.val[i] = p}) = 1
    /\ \A i, j \in 1..Len(ret.val) :
         i < j => /\ ~(~ret.val[i].isAlive /\ ret.val[j].isAlive)
                  /\ (ret.val[i].isAlive = ret.val[j].isAlive
                        => ret.val[i].score >= ret.val[j].score)

\* a dead member with the highest score is ranked behind two living members
C16_Witness ==
  /\ ret.op = "calculateRankings"
  /\ Len(ret.val) = 3
  /\ ret.val[1].isAlive /\ ret.val[2].isAlive /\ ~ret.val[3].isAlive
  /\ ret.val[1].score > ret.val[2].score
  /\ ret.val[3].score > ret.val[1].score
  /\ allPlayers[2] = ret.val[3]

\* C18: from an empty bag, every block of seven consecutive getNextPiece
\* calls returns each of the seven piece types exactly once, whatever the
\* shuffles; the bag is refilled only when it is empty and holds at most
\* seven types, no type twice.
C18_SevenBag ==
  /\ [](/\ \A t \in Range(pieceTypes) : CopiesIn(t, bot.drawn) <= 1
        /\ BagToSet(bot.drawn) \subseteq Range(pieceTypes)
        /\ BagCardinality(bot.drawn) = 7 => BagToSet(bot.drawn) = Range(pieceTypes)
        /\ Len(bot.bag) <= 7
        /\ Range(bot.bag) \subseteq Range(pieceTypes)
        /\ Cardinality(Range(bot.bag)) = Len(bot.bag)
        /\ ret.op = "getNextPiece" => BagIn(ret.val.type, bot.drawn))
  /\ [][Len(bot'.bag) >= Len(bot.bag) => Len(bot.bag) = 0]_vars

\* a block of seven calls is complete and the bag is empty again
C18_Witness ==
  /\ ret.op = "getNextPiece"
  /\ BagCardinality(bot.drawn) = 7
  /\ Len(bot.bag) = 0

\* C19: any placement (x, y, shape) findBestMove returns for the field and
\* the current piece of the bot has checkCollision(x, y, shape) false and
\* checkCollision(x, y + 1, shape) true, and all its cells are inside the
\* 10x20 grid: the piece overlaps no occupied cell and cannot descend one
\* more row.
C19_RestingPlacement ==
  [][(ret'.op = "playMove" /\ ret'.bestMove # << >>) =>
       LET move == ret'.bestMove[1]
       IN /\ ~CheckCollision(bot.field, move.x, move.y, move.shape)
          /\ CheckCollision(bot.field, move.x, move.y + 1, move.shape)
          /\ \A cell \in Cells(move.x, move.y, move.shape) :
               /\ cell[1] \in 0..(FIELD_ROWS - 1)
               /\ cell[2] \in 0..(FIELD_COLS - 1)
               /\ bot.field[cell[1] + 1][cell[2] + 1] = ""]_vars

\* findBestMove has returned a placement that rests on the stack, above the
\* bottom row of the field
C19_Witness ==
  /\ ret.op = "playMove"
  /\ ret.bestMove # << >>
  /\ ret.bestMove[1].y + Len(ret.bestMove[1].shape) <= FIELD_ROWS - 1

\* a garbage row: nine filled cells and exactly one empty cell
IsGarbageRow(row) ==
  /\ Len(row) = FIELD_COLS
  /\ Cardinality({x \in 1..FIELD_COLS : row[x] = ""}) = 1

\* C20: after a bot receives n garbage lines (0 < n <= 20) its field still
\* has exactly 20 rows, its bottom n rows are garbage rows, and the rows that
\* were at indices n..19 before the call are at indices 0..19-n after it (the
\* former top n rows are discarded, the rest of the stack is shifted up by n).
C20_GarbageShiftsStack ==
  [][ret'.op = "receiveAttack" =>
       LET n == ret'.val
       IN /\ Len(bot'.field) = FIELD_ROWS
          /\ \A y \in (FIELD_ROWS - n)..(FIELD_ROWS - 1) : IsGarbageRow(bot'.field[y + 1])
          /\ \A y \in n..(FIELD_ROWS - 1) : bot'.field[y - n + 1] = bot.field[y + 1]]_vars

\* a row of which every cell is occupied
IsFullRow(row) == \A x \in 1..FIELD_COLS : row[x] # ""

\* a row of which some cell is occupied
IsNonEmptyRow(row) == \E x \in 1..FIELD_COLS : row[x] # ""

\* C21: for every 20x10 field, clearLines() returns exactly the number of
\* fully occupied rows of the field before the call and leaves a field of 20
\* rows, none fully occupied: that many entirely empty rows on top, followed
\* by the rows that were not full, in their order; the number of non-empty
\* rows does not grow.
C21_ClearLines ==
  [][ret'.op = "clearLines" =>
       LET NotFull(row) == ~IsFullRow(row)
           kept == SelectSeq(bot.field, NotFull)
           k == FIELD_ROWS - Len(kept)
       IN /\ ret'.val = k
          /\ Len(bot'.field) = FIELD_ROWS
          /\ \A y \in 1..FIELD_ROWS : ~IsFullRow(bot'.field[y])
          /\ bot'.field = [y \in 1..k |-> EmptyRow] \o kept
          /\ Cardinality({y \in 1..FIELD_ROWS : IsNonEmptyRow(bot'.field[y])})
               <= Cardinality({y \in 1..FIELD_ROWS : IsNonEmptyRow(bot.field[y])})]_vars

\* clearLines has removed two full rows that lay one above the other, below
\* a row that was kept and above another
C21_Witness ==
  /\ ret.op = "clearLines"
  /\ ret.val >= 2
  /\ \E y \in 2..(FIELD_ROWS - 2) :
       /\ IsFullRow(ret.before[y]) /\ IsFullRow(ret.before[y + 1])
       /\ IsNonEmptyRow(ret.before[y - 1]) /\ ~IsFullRow(ret.before[y - 1])
       /\ IsNonEmptyRow(ret.before[y + 2]) /\ ~IsFullRow(ret.before[y + 2])

\* the current piece of bot c collides where it is
SpawnCollides(c) ==
  CheckCollision(c.field, c.currentPiece[1].x, c.currentPiece[1].y, c.currentPiece[1].shape)

\* C22 as stated: when the piece placed by a playMove call leaves the board
\* such that the newly current piece collides at its spawn position, that
\* playMove call still reports alive (death being reported by the next call).
C22_DeathOneTickLater ==
  [][(ret'.op = "playMove" /\ SpawnCollides(bot')) => ret'.val = TRUE]_vars

\* C22 amended: a playMove call reports death (returns false) exactly when
\* the newly current piece collides at its spawn position after the call; in
\* that same tick the bot is marked dead, its interval is cleared and
\* playerDied is sent.
C22_DeathSameTick ==
  [][ret'.op = "playMove" =>
       /\ ret'.val = ~SpawnCollides(bot')
       /\ bot'.isAlive = ret'.val
       /\ bot'.updateInterval = ret'.val
       /\ ("playerDied" \in ret'.sent) = ~ret'.val]_vars

\* a playMove call has returned false and the bot is dead
C22_Witness ==
  /\ ret.op = "playMove"
  /\ ret.val = FALSE
  /\ ~bot.isAlive
  /\ SpawnCollides(bot)

\* C24: a tick that runs while the bot is dead or its session is not started
\* calls no playMove and only clears the interval: field, pieces, score, line
\* count and isAlive stay and nothing is sent; a dead bot never becomes alive
\* again and its score never changes.
C24_IdleTick ==
  [][/\ ret'.op = "playMove" => bot.isAlive
     /\ ret'.op = "tickStop" =>
          /\ bot' = [bot EXCEPT !.updateInterval = FALSE, !.calls = bot.calls + 1]
          /\ ret'.sent = {}
     /\ ~bot.isAlive => (~bot'.isAlive /\ bot'.score = bot.score /\ bot'.field = bot.field)]_vars

\* a dead bot, started again with its room, has ticked and is stopped
C24_Witness ==
  /\ ret.op = "tickStop"
  /\ ~bot.isAlive
  /\ ~bot.updateInterval
  /\ bot.starts = 2

\* C27: between ticks the field of the bot has no fully occupied row; each
\* playMove clears k lines with 0 <= k <= 4, adds k to the line count and
\* 0, 100, 300, 500 or 800 to the score; the score is a defined non-negative
\* multiple of 100, garbage lines arriving between the ticks.
C27_Score ==
  /\ [](/\ \A y \in 1..FIELD_ROWS : ~IsFullRow(bot.field[y])
        /\ bot.score # NaN
        /\ bot.score >= 0
        /\ bot.score % 100 = 0)
  /\ [][ret'.op = "playMove" =>
          LET k == bot'.linesCleared - bot.linesCleared
          IN /\ k \in 0..4
             /\ bot'.score = bot.score + <<0, 100, 300, 500, 800>>[k + 1]]_vars

\* the bot has cleared a line in a field that holds a garbage row
C27_Witness ==
  /\ ret.op = "playMove"
  /\ bot.linesCleared > 0
  /\ bot.score > 0
  /\ \E y \in 1..FIELD_ROWS : IsGarbageRow(bot.field[y])

\* C30: whenever the tick of a living bot of a started session calls
\* playMove, the current piece is collision-free at its spawn position and
\* findBestMove returns a placement.
C30_SpawnFree ==
  [][ret'.op = "playMove" => (~SpawnCollides(bot) /\ ret'.bestMove # << >>)]_vars

\* C28: for every session of the registry and every human record in it, the
\* client with that id is connected and its roomId is that session.
C28_MembershipConsistent ==
  \A r \in rooms : \A p \in Humans(room[r]) : p \in clients /\ roomId[p] = r

\* C29: when a human leaves a PLAYING session with leaveRoom and the session
\* stays in the registry with at most one living member, the session is
\* ENDED at the end of the event and gameEnd has been broadcast.
C29_LeaveEndsGame ==
  [][\A c \in RoomClients :
       (/\ HandleLeaveRoom(c)
        /\ roomId[c] \in rooms
        /\ Playing(room[roomId[c]])
        /\ roomId[c] \in rooms'
        /\ AliveCount(room'[roomId[c]]) <= 1)
       => (Ended(room'[roomId[c]]) /\ "gameEnd" \in last'.sent)]_vars

\* C26: a matchmaking timeout force-matches its queue only if the entry
\* whose enqueue armed it is still in that queue; a timer armed by an earlier
\* enqueue of a client that was matched and enqueued again triggers no
\* force-match for the later entry.
C26_OwnTimeoutOnly ==
  [][\A t \in mmTimers :
       (MatchTimeout(t) /\ Len(room') > Len(room))
         => t.eid \in QueueEntries(rankQueues[t.rank])]_vars

\* C25: for a quick-match session, the match-start timer and a startGame or
\* forceStart request make the WAITING to PLAYING transition exactly once,
\* whichever comes first: the one that finds the session in WAITING backfills
\* the bots, arms the timer of each bot and broadcasts gameStart; the one that
\* finds it PLAYING changes nothing and sends nothing; no session returns to
\* WAITING, and a session that has started a game holds no armed match-start
\* timer.
StartEvent(r) ==
  \/ MatchTimerFire(r)
  \/ \E c \in GameClients : roomId[c] = r /\ r \in rooms /\ HandleStartGame(c)
  \/ \E c \in GameClients : roomId[c] = r /\ r \in rooms /\ HandleForceStart(c)

Backfilled(rm, humans) ==
  LET needed == TargetTotal(humans) - humans
  IN /\ NumCPU(rm) = IF needed > 0 THEN needed ELSE 0
     /\ CopiesIn([isAlive |-> TRUE, updateInterval |-> TRUE], rm.cpuPlayers) = NumCPU(rm)

C25_StartRace ==
  /\ [][\A r \in 1..Len(room) :
          /\ (room[r].isQuickMatch /\ StartEvent(r) /\ Waiting(room[r]))
               => /\ Playing(room'[r])
                  /\ room'[r].startTime = 1
                  /\ Backfilled(room'[r], Cardinality(Humans(room[r])))
                  /\ last'.sent = Broadcast(r \in rooms, "gameStart")
          /\ (room[r].isQuickMatch /\ StartEvent(r) /\ Playing(room[r]))
               => (room' = room /\ last'.sent = {})
          /\ ~Waiting(room[r]) => ~Waiting(room'[r])]_vars
  /\ [](\A r \in 1..Len(room) :
          (room[r].isQuickMatch /\ room[r].startTime >= 1) => room[r].matchTimer # "armed")

\* the match-start timer started the game; a request came afterwards
C25_Witness ==
  /\ last.op \in {"startGame", "forceStart"}
  /\ last.rid \in rooms
  /\ room[last.rid].isQuickMatch
  /\ Playing(room[last.rid])
  /\ room[last.rid].startTime = 1
  /\ last.sent = {}
  /\ Backfilled(room[last.rid], Cardinality(Humans(room[last.rid])))

\* C23: when a bot's attack triggers, the members that can be chosen as its
\* target are exactly the living members of the session other than the
\* attacker: every living human and every other living bot.
C23_AttackTargets ==
  (last.op = "botTick" /\ "targets" \in DOMAIN last)
    => /\ last.targets.humans = AliveHumans(room[last.rid])
       /\ last.targets.cpus = AliveCPUs(room[last.rid]) - 1

====
